---- MODULE Spec2Model ----
(***************************************************************************)
(* Model of core/jobs/batch_jobs/opportunity_management_jobs.py:           *)
(*   DeleteExplorationOpportunitySummariesJob   (purge)                    *)
(*   GenerateExplorationOpportunitySummariesJob (regenerate)               *)
(* The datastore holds topic, story, exploration and opportunity summary   *)
(* models.  Each job is a Beam pipeline; a pipeline is modelled by one     *)
(* action per transform application (a read, one element through a Map,    *)
(* one key through DeleteModels, one result through PutModels).            *)
(***************************************************************************)
EXTENDS Integers, Sequences, FiniteSets, Bags, TLC

\* ------------------------------------------------------------------ bounds
\* Total number of story nodes (chapters) in the datastore.
MaxNodes == 2
\* Total number of canonical story references over all topics.
MaxStoryRefs == 2
\* Number of job runs the caller starts.
MaxRuns == 2

TopicIds == {"T1", "T2"}
StoryIds == {"S1", "S2"}
ExpIds == {"E1", "E2"}
\* node.exploration_id of a chapter that links no exploration (None).
NoExp == "None"

VARIABLES
    topicModels,    \* datastore: TopicModel by id
    storyModels,    \* datastore: StoryModel by id
    expModels,      \* datastore: ExplorationModel by id
    summaryModels,  \* datastore: ExplorationOpportunitySummaryModel entities
    purgePc,        \* DeleteExplorationOpportunitySummariesJob: idle/running/done
    exp_opportunity_summary_model, \* purge: the PCollection of models read
    deleted_keys,   \* purge: keys already passed through DeleteModels
    purge_results,  \* purge: the returned PCollection of JobRunResult
    purge_counted,  \* purge: the Count.Globally branch has run
    genPc,          \* GenerateExplorationOpportunitySummariesJob: idle/running/done
    topics,         \* regenerate: the PCollection of Topic objects read
    stories_dict,   \* regenerate: AsDict side input, story id -> Story
    exps_dict,      \* regenerate: AsDict side input, exp id -> Exploration
    opportunities_results, \* regenerate: outputs of the per-topic Map
    put_done,       \* regenerate: indexes of results already through PutModels
    nruns,          \* number of job runs started
    log             \* completed runs, oldest first

vars == <<topicModels, storyModels, expModels, summaryModels,
          purgePc, exp_opportunity_summary_model, deleted_keys, purge_results,
          purge_counted,
          genPc, topics, stories_dict, exps_dict, opportunities_results,
          put_done, nruns, log>>

sourceVars == <<topicModels, storyModels, expModels>>
purgeVars == <<purgePc, exp_opportunity_summary_model, deleted_keys,
               purge_results, purge_counted>>
genVars == <<genPc, topics, stories_dict, exps_dict, opportunities_results,
             put_done>>

\* ----------------------------------------------------------------- helpers
Range(s) == {s[i] : i \in DOMAIN s}

SeqsUpTo(S, n) == UNION {[1..k -> S] : k \in 0..n}

\* ------------------------------------------------------- domain collaborators
\* topic_fetchers.get_topic_from_model
get_topic_from_model(m) ==
    [id |-> m.id, canonical_story_ids |-> m.canonical_story_ids]

\* story_fetchers.get_story_from_model
get_story_from_model(m) == [id |-> m.id, nodes |-> m.nodes]

\* exp_fetchers.get_exploration_from_model
get_exploration_from_model(m) == [id |-> m.id, valid |-> m.valid]

\* Topic.get_canonical_story_ids: the ordered list of canonical story ids.
get_canonical_story_ids(topic) == topic.canonical_story_ids

\* StoryContents.get_all_linked_exp_ids: the exploration ids of the chapters
\* that link one, in chapter order, duplicates preserved.
get_all_linked_exp_ids(story) ==
    SelectSeq(story.nodes, LAMBDA e : e # NoExp)

\* The chapter whose title the summary carries: the first node of the story
\* that links the exploration.
ChapterOf(story, exp_id) ==
    CHOOSE i \in DOMAIN story.nodes :
        /\ story.nodes[i] = exp_id
        /\ \A j \in DOMAIN story.nodes : story.nodes[j] = exp_id => i <= j

\* opportunity_services.create_exp_opportunity_summary raises on an
\* exploration whose content does not validate.
SummaryRaises(exp) == ~exp.valid

\* opportunity_services.create_exp_opportunity_summary, followed by the copy
\* into an ExplorationOpportunitySummaryModel.
create_exp_opportunity_summary(topic, story, exp) ==
    [id |-> <<topic.id, story.id, exp.id>>,
     topic_id |-> topic.id,
     story_id |-> story.id,
     chapter_title |-> ChapterOf(story, exp.id),
     deleted |-> FALSE]

\* BaseModel.get_all(include_deleted=False) through ndb_io.GetModels.
GetModels(ms) == {m \in ms : ~m.deleted}

\* ndb_io.PutModels: an entity is stored under its key, replacing the entity
\* that had the key.
PutModels(store, ms) ==
    {m \in store : \A n \in ms : n.id # m.id} \cup ms

\* ndb_io.DeleteModels for one key.
DeleteModels(store, key) == {m \in store : m.id # key}

\* ------------------------------------------------ per-topic reconciliation
\* The message with its two lists in each other's place.
MissingReferenceErrorSwapped(topic, missing_exp_ids, missing_story_ids) ==
    [message |-> "Failed to regenerate opportunities for topic id",
     topic_id |-> topic.id,
     missing_exp_with_ids |-> missing_story_ids,
     missing_story_with_ids |-> missing_exp_ids]

\* The Exception raised for a topic whose references do not all resolve: its
\* message, the two lists given as sets (their order is unspecified).
MissingReferenceError(topic, missing_exp_ids, missing_story_ids) ==
    [message |-> "Failed to regenerate opportunities for topic id",
     topic_id |-> topic.id,
     missing_exp_with_ids |-> missing_exp_ids,
     missing_story_with_ids |-> missing_story_ids]

\* The exception create_exp_opportunity_summary raises.
SummaryError == [message |-> "ValidationError"]

\* The loop with each story's linked exploration ids made distinct first.
LinkedPairsDistinct(existing_story_ids, dict) ==
    UNION {{<<sid, i>> : i \in {j \in DOMAIN get_all_linked_exp_ids(dict[sid]) :
                \A k \in 1..(j - 1) :
                    get_all_linked_exp_ids(dict[sid])[k] #
                        get_all_linked_exp_ids(dict[sid])[j]}} :
              sid \in existing_story_ids}

\* The (story id, position in get_all_linked_exp_ids) pairs the nested loop
\* of lines 146-150 visits.
LinkedPairs(existing_story_ids, dict) ==
    UNION {{<<sid, i>> : i \in DOMAIN get_all_linked_exp_ids(dict[sid])} :
              sid \in existing_story_ids}

\* The list with the models the datastore already holds left out.
SummaryModelListNew(topic, existing_story_ids, s_dict, e_dict) ==
    LET pairs == LinkedPairs(existing_story_ids, s_dict)
        modelOf(p) ==
            create_exp_opportunity_summary(
                topic, s_dict[p[1]],
                e_dict[get_all_linked_exp_ids(s_dict[p[1]])[p[2]]])
    IN  [m \in {modelOf(p) : p \in pairs} \ summaryModels |->
            Cardinality({p \in pairs : modelOf(p) = m})]

\* The list with every model kept once, however many pairs produce it.
SummaryModelListDeduped(topic, existing_story_ids, s_dict, e_dict) ==
    LET pairs == LinkedPairs(existing_story_ids, s_dict)
        modelOf(p) ==
            create_exp_opportunity_summary(
                topic, s_dict[p[1]],
                e_dict[get_all_linked_exp_ids(s_dict[p[1]])[p[2]]])
    IN  SetToBag({modelOf(p) : p \in pairs})

\* exploration_opportunity_summary_model_list, as a bag: one model per visited
\* pair; the order of the list follows set iteration and is unspecified.
SummaryModelList(topic, existing_story_ids, s_dict, e_dict) ==
    LET pairs == LinkedPairs(existing_story_ids, s_dict)
        modelOf(p) ==
            create_exp_opportunity_summary(
                topic, s_dict[p[1]],
                e_dict[get_all_linked_exp_ids(s_dict[p[1]])[p[2]]])
    IN  [m \in {modelOf(p) : p \in pairs} |->
            Cardinality({p \in pairs : modelOf(p) = m})]

\* The guard with the test of the missing stories left out.
HasMissingExpsOnly(missing_exp_ids, missing_story_ids) ==
    Cardinality(missing_exp_ids) > 0

\* The guard with >= for >.
HasMissingOrEmpty(missing_exp_ids, missing_story_ids) ==
    Cardinality(missing_exp_ids) >= 0 \/ Cardinality(missing_story_ids) > 0

\* The guard of the raise at line 134.
HasMissing(missing_exp_ids, missing_story_ids) ==
    Cardinality(missing_exp_ids) > 0 \/ Cardinality(missing_story_ids) > 0

\* Every story of the datastore, the intersection left out.
AllStoryIds(s_dict, story_ids) == DOMAIN s_dict

\* existing_story_ids, lines 125-126.
ExistingStoryIds(s_dict, story_ids) == (DOMAIN s_dict) \cap Range(story_ids)

\* The body with exp_ids collected from every story of the table instead of
\* the stories of the topic.
TryBodyAllStories(topic, s_dict, e_dict) ==
    LET story_ids == get_canonical_story_ids(topic)
        existing_story_ids == ExistingStoryIds(s_dict, story_ids)
        exp_ids == UNION {Range(get_all_linked_exp_ids(s_dict[sid])) :
                             sid \in DOMAIN s_dict}
        existing_exp_ids == (DOMAIN e_dict) \cap exp_ids
        missing_story_ids == Range(story_ids) \ existing_story_ids
        missing_exp_ids == exp_ids \ existing_exp_ids
    IN  IF HasMissing(missing_exp_ids, missing_story_ids)
        THEN [raised |-> TRUE,
              exception |-> MissingReferenceError(
                                topic, missing_exp_ids, missing_story_ids)]
        ELSE IF \E e \in exp_ids : SummaryRaises(e_dict[e])
        THEN [raised |-> TRUE, exception |-> SummaryError]
        ELSE [raised |-> FALSE,
              value |-> [status |-> "SUCCESS",
                         job_result |-> [stdout |-> "SUCCESS", stderr |-> ""],
                         models |-> SummaryModelList(
                             topic, existing_story_ids, s_dict, e_dict)]]

\* The body of the try statement: either the dict it returns or the exception
\* that leaves it.  exp_ids is a list in the code, used only through its set
\* of elements.  The summaries are created for every id of exp_ids, so the
\* loop raises exactly when one of them makes the projection raise.
TryBody(topic, s_dict, e_dict) ==
    LET story_ids == get_canonical_story_ids(topic)
        existing_story_ids == ExistingStoryIds(s_dict, story_ids)
        exp_ids == UNION {Range(get_all_linked_exp_ids(s_dict[sid])) :
                             sid \in existing_story_ids}
        existing_exp_ids == (DOMAIN e_dict) \cap exp_ids
        missing_story_ids == Range(story_ids) \ existing_story_ids
        missing_exp_ids == exp_ids \ existing_exp_ids
    IN  IF HasMissing(missing_exp_ids, missing_story_ids)
        THEN [raised |-> TRUE,
              exception |-> MissingReferenceError(
                                topic, missing_exp_ids, missing_story_ids)]
        ELSE IF \E e \in exp_ids : SummaryRaises(e_dict[e])
        THEN [raised |-> TRUE, exception |-> SummaryError]
        ELSE [raised |-> FALSE,
              value |-> [status |-> "SUCCESS",
                         job_result |-> [stdout |-> "SUCCESS", stderr |-> ""],
                         models |-> SummaryModelList(
                             topic, existing_story_ids, s_dict, e_dict)]]

\* The function without its except clause: the exception leaves the call.
UnguardedGenerate(topic, s_dict, e_dict) ==
    LET body == TryBody(topic, s_dict, e_dict)
    IN  IF body.raised
        THEN [status |-> "RAISED", exception |-> body.exception]
        ELSE body.value

\* The function keeping state between calls: once a topic has failed, the
\* topics mapped after it fail too.
GenerateAfterOthers(topic, s_dict, e_dict) ==
    LET body == TryBody(topic, s_dict, e_dict)
        failedBefore == \E i \in DOMAIN opportunities_results :
                            opportunities_results[i].result.status = "FAILURE"
    IN  IF body.raised \/ failedBefore
        THEN [status |-> "FAILURE",
              job_result |-> [stdout |-> "",
                              stderr |-> <<"FAILURE",
                                           IF body.raised THEN body.exception
                                           ELSE SummaryError>>],
              models |-> EmptyBag]
        ELSE body.value

\* GenerateExplorationOpportunitySummariesJob
\*     ._generate_opportunities_related_to_topic
generate_opportunities_related_to_topic(topic, s_dict, e_dict) ==
    LET body == TryBody(topic, s_dict, e_dict)
    IN  IF body.raised
        THEN [status |-> "FAILURE",
              job_result |-> [stdout |-> "",
                              stderr |-> <<"FAILURE", body.exception>>],
              models |-> EmptyBag]
        ELSE body.value

\* ------------------------------------------------------------------- purge
\* A key that leaves the exploration id out.
KeyWithoutExp(model) == <<model.topic_id, model.story_id>>

\* beam.Map(lambda model: model.key)
KeyOf(model) == model.id

\* The filter with >= for >.
CountFilterZero(n) == n >= 0

\* beam.Filter(lambda n: n > 0)
CountFilter(n) == n > 0

\* Count.Globally | Filter | Map(JobRunResult(stdout='SUCCESS %s' % n)), as
\* the bag of results it emits.
CountResults(ms) ==
    LET n == Cardinality(ms)
    IN  IF CountFilter(n)
        THEN SetToBag({[stdout |-> <<"SUCCESS", n>>, stderr |-> ""]})
        ELSE EmptyBag

\* 'Get all non-deleted opportunity models': the pipeline starts.
StartPurge ==
    /\ purgePc # "running"
    /\ purgePc' = "running"
    /\ exp_opportunity_summary_model' = GetModels(summaryModels)
    /\ deleted_keys' = {}
    /\ purge_results' = EmptyBag
    /\ purge_counted' = FALSE
    /\ nruns' = nruns + 1
    /\ UNCHANGED <<sourceVars, summaryModels, genVars, log>>

\* A delete by query: every model the datastore holds now and get_all would
\* return is removed.
PurgeDeleteAll(m) ==
    /\ purgePc = "running"
    /\ m \in exp_opportunity_summary_model
    /\ KeyOf(m) \notin deleted_keys
    /\ deleted_keys' = deleted_keys \cup {KeyOf(m)}
    /\ summaryModels' = summaryModels \ GetModels(summaryModels)
    /\ UNCHANGED <<sourceVars, purgePc, exp_opportunity_summary_model,
                   purge_results, purge_counted, genVars, nruns, log>>

\* 'Delete all models': one element's key goes through DeleteModels.
PurgeDelete(m) ==
    /\ purgePc = "running"
    /\ m \in exp_opportunity_summary_model
    /\ KeyOf(m) \notin deleted_keys
    /\ deleted_keys' = deleted_keys \cup {KeyOf(m)}
    /\ summaryModels' = DeleteModels(summaryModels, KeyOf(m))
    /\ UNCHANGED <<sourceVars, purgePc, exp_opportunity_summary_model,
                   purge_results, purge_counted, genVars, nruns, log>>

\* 'Count all new models' and the two transforms after it.
PurgeCount ==
    /\ purgePc = "running"
    /\ ~purge_counted
    /\ purge_counted' = TRUE
    /\ purge_results' = CountResults(exp_opportunity_summary_model)
    /\ UNCHANGED <<sourceVars, summaryModels, purgePc,
                   exp_opportunity_summary_model, deleted_keys, genVars,
                   nruns, log>>

\* The pipeline ends when both branches have consumed the read.
PurgeFinish ==
    /\ purgePc = "running"
    /\ purge_counted
    /\ \A m \in exp_opportunity_summary_model : KeyOf(m) \in deleted_keys
    /\ purgePc' = "done"
    /\ log' = Append(log, [job |-> "purge",
                           read |-> exp_opportunity_summary_model,
                           results |-> purge_results,
                           outcomes |-> {},
                           store |-> summaryModels])
    /\ UNCHANGED <<sourceVars, summaryModels, exp_opportunity_summary_model,
                   deleted_keys, purge_results, purge_counted, genVars, nruns>>

\* -------------------------------------------------------------- regenerate
\* The filter keeping the failures.
FailureFilter(result) == result.status # "SUCCESS"

\* beam.Filter(lambda result: result['status'] == 'SUCCESS')
SuccessFilter(result) == result.status = "SUCCESS"

\* A Map that passes one model of the list on.
OneModelToPut(result) ==
    IF BagToSet(result.models) = {} THEN {}
    ELSE {CHOOSE m \in BagToSet(result.models) : TRUE}

\* beam.FlatMap(lambda result: result['models'])
ModelsToPut(result) == BagToSet(result.models)

\* A side input holding one of the objects only.
AsDictOfOne(objs) ==
    IF objs = {} THEN <<>>
    ELSE LET one == CHOOSE o \in objs : TRUE
         IN  [k \in {one.id} |-> one]

\* beam.Map(lambda x: (x.id, x)) and beam.pvalue.AsDict: the objects keyed by
\* their id (the ids of the entities of one kind are distinct).
AsDictById(objs) ==
    [k \in {o.id : o \in objs} |-> CHOOSE o \in objs : o.id = k]

\* The three reads and the two AsDict side inputs: the pipeline starts.
StartGenerate ==
    /\ genPc # "running"
    /\ genPc' = "running"
    /\ topics' = {get_topic_from_model(m) :
                     m \in GetModels(Range(topicModels))}
    /\ stories_dict' =
           AsDictById({get_story_from_model(m) :
                          m \in GetModels(Range(storyModels))})
    /\ exps_dict' =
           AsDictById({get_exploration_from_model(m) :
                          m \in GetModels(Range(expModels))})
    /\ opportunities_results' = <<>>
    /\ put_done' = {}
    /\ nruns' = nruns + 1
    /\ UNCHANGED <<sourceVars, summaryModels, purgeVars, log>>

\* The mapped function taking the stories it has used out of the story
\* table.
ReconcileConsuming(topic) ==
    /\ genPc = "running"
    /\ topic \in topics
    /\ \A i \in DOMAIN opportunities_results :
           opportunities_results[i].topic_id # topic.id
    /\ LET result == generate_opportunities_related_to_topic(
                         topic, stories_dict, exps_dict)
       IN  IF result.status = "RAISED"
           THEN /\ genPc' = "failed"
                /\ UNCHANGED opportunities_results
           ELSE /\ genPc' = genPc
                /\ opportunities_results' =
                       Append(opportunities_results,
                              [topic_id |-> topic.id, result |-> result])
    /\ stories_dict' =
           [k \in (DOMAIN stories_dict) \
                      Range(get_canonical_story_ids(topic)) |-> stories_dict[k]]
    /\ UNCHANGED <<sourceVars, summaryModels, purgeVars, topics,
                   exps_dict, put_done, nruns, log>>

\* One topic goes through beam.Map(_generate_opportunities_related_to_topic).
\* Each output is kept with the id of the topic it was mapped from.  An
\* exception that leaves the mapped function fails the pipeline.
Reconcile(topic) ==
    /\ genPc = "running"
    /\ topic \in topics
    /\ \A i \in DOMAIN opportunities_results :
           opportunities_results[i].topic_id # topic.id
    /\ LET result == generate_opportunities_related_to_topic(
                         topic, stories_dict, exps_dict)
       IN  IF result.status = "RAISED"
           THEN /\ genPc' = "failed"
                /\ UNCHANGED opportunities_results
           ELSE /\ genPc' = genPc
                /\ opportunities_results' =
                       Append(opportunities_results,
                              [topic_id |-> topic.id, result |-> result])
    /\ UNCHANGED <<sourceVars, summaryModels, purgeVars, topics,
                   stories_dict, exps_dict, put_done, nruns, log>>

\* One result goes through Filter | FlatMap | PutModels.
PutResult(i) ==
    /\ genPc = "running"
    /\ i \in DOMAIN opportunities_results
    /\ i \notin put_done
    /\ put_done' = put_done \cup {i}
    /\ summaryModels' =
           IF SuccessFilter(opportunities_results[i].result)
           THEN PutModels(summaryModels,
                          ModelsToPut(opportunities_results[i].result))
           ELSE summaryModels
    /\ UNCHANGED <<sourceVars, purgeVars, genPc, topics, stories_dict,
                   exps_dict, opportunities_results, nruns, log>>

\* The job results taken from the filtered results.
JobResultsOfSuccesses ==
    LET ok == {i \in DOMAIN opportunities_results :
                  opportunities_results[i].result.status = "SUCCESS"}
        rs == {opportunities_results[i].result.job_result : i \in ok}
    IN  [r \in rs |->
            Cardinality({i \in ok :
                            opportunities_results[i].result.job_result = r})]

\* 'Fetch the job results': the returned PCollection, as a bag.
JobResults ==
    LET rs == {opportunities_results[i].result.job_result :
                  i \in DOMAIN opportunities_results}
    IN  [r \in rs |->
            Cardinality({i \in DOMAIN opportunities_results :
                            opportunities_results[i].result.job_result = r})]

\* The pipeline ends when every topic is mapped and every result consumed.
GenFinish ==
    /\ genPc = "running"
    /\ \A t \in topics : \E i \in DOMAIN opportunities_results :
           opportunities_results[i].topic_id = t.id
    /\ put_done = DOMAIN opportunities_results
    /\ genPc' = "done"
    /\ log' = Append(log, [job |-> "generate",
                           read |-> {},
                           results |-> JobResults,
                           outcomes |-> Range(opportunities_results),
                           store |-> summaryModels])
    /\ UNCHANGED <<sourceVars, summaryModels, purgeVars, topics, stories_dict,
                   exps_dict, opportunities_results, put_done, nruns>>

\* ------------------------------------------------------------ initial states
RECURSIVE TotalLen(_, _)
TotalLen(f, ids) ==
    IF ids = {} THEN 0
    ELSE LET x == CHOOSE y \in ids : TRUE
         IN  Len(f[x]) + TotalLen(f, ids \ {x})

\* The canonical story lists of the topics.
TopicContents ==
    {c \in [TopicIds -> SeqsUpTo(StoryIds, MaxStoryRefs)] :
        TotalLen(c, TopicIds) <= MaxStoryRefs}

\* The node lists of the stories, each node given by its exploration_id.
StoryContents ==
    {c \in [StoryIds -> SeqsUpTo(ExpIds \cup {NoExp}, MaxNodes)] :
        TotalLen(c, StoryIds) <= MaxNodes}

\* Any datastore of topics, stories and explorations within the bounds.  A
\* soft-deleted entity is given no contents (the jobs never read them), and
\* the exploration that may be invalid is E1 (the ids are interchangeable).
AnySources ==
    /\ \E c \in TopicContents, d \in SUBSET TopicIds :
          /\ \A t \in d : c[t] = <<>>
          /\ topicModels = [t \in TopicIds |->
                 [id |-> t, deleted |-> t \in d, canonical_story_ids |-> c[t]]]
    /\ \E c \in StoryContents, d \in SUBSET StoryIds :
          /\ \A sid \in d : c[sid] = <<>>
          /\ storyModels = [sid \in StoryIds |->
                 [id |-> sid, deleted |-> sid \in d, nodes |-> c[sid]]]
    /\ \E d \in SUBSET ExpIds, inv \in SUBSET {"E1"} :
          /\ d \cap inv = {}
          /\ expModels = [eid \in ExpIds |->
                 [id |-> eid, deleted |-> eid \in d, valid |-> eid \notin inv]]

\* A datastore with dangling references: both topics are present, story S2
\* may be soft-deleted with its nodes still in the datastore, explorations
\* may be deleted and E1 may be invalid.
DanglingSources ==
    /\ \E c \in TopicContents :
          topicModels = [t \in TopicIds |->
              [id |-> t, deleted |-> FALSE, canonical_story_ids |-> c[t]]]
    /\ \E c \in StoryContents, d \in SUBSET {"S2"} :
          storyModels = [sid \in StoryIds |->
              [id |-> sid, deleted |-> sid \in d, nodes |-> c[sid]]]
    /\ \E d \in SUBSET ExpIds, inv \in SUBSET {"E1"} :
          /\ d \cap inv = {}
          /\ expModels = [eid \in ExpIds |->
                 [id |-> eid, deleted |-> eid \in d, valid |-> eid \notin inv]]

\* A datastore in which each topic lists the story of its own number and
\* every chapter links an exploration; S2 may be deleted, E2 may be deleted
\* and E1 may be invalid.
PairedSources ==
    /\ topicModels = [t \in TopicIds |->
           [id |-> t, deleted |-> FALSE,
            canonical_story_ids |-> IF t = "T1" THEN <<"S1">> ELSE <<"S2">>]]
    /\ \E c \in StoryContents, d \in SUBSET {"S2"} :
          /\ \A sid \in StoryIds : NoExp \notin Range(c[sid])
          /\ \A sid \in d : c[sid] = <<>>
          /\ storyModels = [sid \in StoryIds |->
                 [id |-> sid, deleted |-> sid \in d, nodes |-> c[sid]]]
    /\ \E d \in SUBSET {"E2"}, inv \in SUBSET {"E1"} :
          expModels = [eid \in ExpIds |->
              [id |-> eid, deleted |-> eid \in d, valid |-> eid \notin inv]]

\* Summary models left in the datastore by regenerations of earlier snapshots.
StaleModels ==
    {[id |-> <<"T1", "S1", "E1">>, topic_id |-> "T1", story_id |-> "S1",
      chapter_title |-> 2, deleted |-> FALSE],
     [id |-> <<"T2", "S2", "E2">>, topic_id |-> "T2", story_id |-> "S2",
      chapter_title |-> 1, deleted |-> FALSE],
     [id |-> <<"T1", "S2", "E2">>, topic_id |-> "T1", story_id |-> "S2",
      chapter_title |-> 1, deleted |-> TRUE]}

JobsIdle ==
    /\ purgePc = "idle"
    /\ exp_opportunity_summary_model = {}
    /\ deleted_keys = {}
    /\ purge_results = EmptyBag
    /\ purge_counted = FALSE
    /\ genPc = "idle"
    /\ topics = {}
    /\ stories_dict = <<>>
    /\ exps_dict = <<>>
    /\ opportunities_results = <<>>
    /\ put_done = {}
    /\ nruns = 0
    /\ log = <<>>

\* Both jobs, run one after the other by the caller, over a store that may
\* hold stale summaries.
Init ==
    /\ PairedSources
    /\ summaryModels \in SUBSET StaleModels
    /\ JobsIdle

Next ==
    \/ nruns < MaxRuns /\ genPc # "running" /\ StartPurge
    \/ \E m \in exp_opportunity_summary_model : PurgeDelete(m)
    \/ PurgeCount
    \/ PurgeFinish
    \/ nruns < MaxRuns /\ purgePc # "running" /\ StartGenerate
    \/ \E topic \in topics : Reconcile(topic)
    \/ \E i \in DOMAIN opportunities_results : PutResult(i)
    \/ GenFinish

Spec == Init /\ [][Next]_vars

\* Both jobs launched by the caller at any time: the steps of a purge
\* pipeline and of a regenerate pipeline interleave.
NextInterleaved ==
    \/ nruns < MaxRuns /\ StartPurge
    \/ \E m \in exp_opportunity_summary_model : PurgeDelete(m)
    \/ PurgeCount
    \/ PurgeFinish
    \/ nruns < MaxRuns /\ StartGenerate
    \/ \E topic \in topics : Reconcile(topic)
    \/ \E i \in DOMAIN opportunities_results : PutResult(i)
    \/ GenFinish

SpecInterleaved == Init /\ [][NextInterleaved]_vars

\* One regenerate run over any source datastore and a purged store.
InitRegenerate ==
    /\ AnySources
    /\ summaryModels = {}
    /\ JobsIdle

NextRegenerate ==
    \/ nruns = 0 /\ StartGenerate
    \/ \E topic \in topics : Reconcile(topic)
    \/ \E i \in DOMAIN opportunities_results : PutResult(i)
    \/ GenFinish

SpecRegenerate == InitRegenerate /\ [][NextRegenerate]_vars

\* One regenerate run over a source datastore with dangling references.
InitDangling ==
    /\ DanglingSources
    /\ summaryModels = {}
    /\ JobsIdle

SpecDangling == InitDangling /\ [][NextRegenerate]_vars

\* ---------------------------------------------------------------------------
\* The source datastore as the claims speak of it.  The jobs never write it,
\* so the snapshot a run reads is the datastore itself.
PresentTopics == {t \in TopicIds : ~topicModels[t].deleted}
PresentStories == {sid \in StoryIds : ~storyModels[sid].deleted}
PresentExps == {eid \in ExpIds : ~expModels[eid].deleted}

CanonicalStories(t) == Range(topicModels[t].canonical_story_ids)
MissingStories(t) == CanonicalStories(t) \ PresentStories
LinksOf(sid) == Range(storyModels[sid].nodes) \ {NoExp}
LinkedExps(t) ==
    UNION {LinksOf(sid) : sid \in CanonicalStories(t) \cap PresentStories}
MissingExps(t) == LinkedExps(t) \ PresentExps
AllResolve(t) == MissingStories(t) = {} /\ MissingExps(t) = {}
\* Some exploration the topic reaches makes the summary projection raise.
Faulty(t) == \E eid \in LinkedExps(t) \cap PresentExps : ~expModels[eid].valid

\* The (story, chapter-with-exploration) pairs reachable from the topic.
ChapterPairs(t) ==
    UNION {{<<sid, i>> : i \in {j \in DOMAIN storyModels[sid].nodes :
                                   storyModels[sid].nodes[j] # NoExp}} :
              sid \in CanonicalStories(t)}

Outcomes == Range(opportunities_results)
OutcomesOf(t) == {o \in Outcomes : o.topic_id = t}
\* The summary models of topic t in the datastore.
WrittenOf(t) == {m \in summaryModels : m.topic_id = t}
FullRead == GetModels(summaryModels)
Keys(ms) == {m.id : m \in ms}

\* C1: all-or-nothing per topic.  A topic with a missing canonical story, or
\* with a missing exploration linked by a present canonical story, has a
\* failure outcome with an empty record list, and no summary model of the
\* topic is in the store (which was empty when the run started), also when a
\* sibling story of the topic resolves completely.
C1_AllOrNothing ==
    \A o \in Outcomes :
        ~AllResolve(o.topic_id) =>
            /\ o.result.status = "FAILURE"
            /\ o.result.models = EmptyBag
            /\ WrittenOf(o.topic_id) = {}

\* A run has finished in which a topic lists a missing story next to a story
\* that resolves completely and links an exploration.
C1_Witness ==
    /\ genPc = "done"
    /\ \E o \in Outcomes :
          /\ MissingStories(o.topic_id) # {}
          /\ \E sid \in CanonicalStories(o.topic_id) \cap PresentStories :
                LinksOf(sid) # {} /\ LinksOf(sid) \subseteq PresentExps
          /\ o.result.status = "FAILURE"

\* C2: reference soundness.  Every summary model emitted in an outcome or
\* written to the store is for a topic, one of the topic's canonical stories
\* that is present, and a present exploration that story links.
SoundModel(m) ==
    /\ m.topic_id \in PresentTopics
    /\ m.story_id \in CanonicalStories(m.topic_id) \cap PresentStories
    /\ \E eid \in LinksOf(m.story_id) \cap PresentExps :
          m.id = <<m.topic_id, m.story_id, eid>>

C2_ReferenceSoundness ==
    /\ \A o \in Outcomes : \A m \in BagToSet(o.result.models) : SoundModel(m)
    /\ \A m \in summaryModels : SoundModel(m)

\* A run has written a model while another present story, outside the
\* topic's canonical list, links an exploration too.
C2_Witness ==
    /\ summaryModels # {}
    /\ \E m \in summaryModels :
          \E sid \in PresentStories \ CanonicalStories(m.topic_id) :
              LinksOf(sid) # {}

C4_Isolation ==
    /\ genPc # "failed"
    /\ genPc = "done" =>
          \A t \in PresentTopics :
              (AllResolve(t) /\ ~Faulty(t)) =>
                  \E o \in OutcomesOf(t) :
                      /\ o.result.status = "SUCCESS"
                      /\ BagCardinality(o.result.models) =
                             Cardinality(ChapterPairs(t))
                      /\ BagToSet(o.result.models) \subseteq summaryModels

\* A finished run in which one topic failed and the other has its models in
\* the store.
C4_Witness ==
    /\ genPc = "done"
    /\ \E a, b \in Outcomes :
          /\ a.result.status = "FAILURE"
          /\ b.result.status = "SUCCESS"
          /\ WrittenOf(b.topic_id) # {}

\* The same with the failure caused by an exception of the projection.
C4_WitnessFault ==
    /\ C4_Witness
    /\ \E a \in Outcomes : AllResolve(a.topic_id) /\ Faulty(a.topic_id)

\* ---------------------------------------------------------------------------
LastRun == log[Len(log)]
\* The last run to finish was a purge and no regenerate has started since.
PurgeJustDone ==
    /\ purgePc = "done"
    /\ genPc # "running"
    /\ Len(log) > 0
    /\ LastRun.job = "purge"
SuccessReport(n) == [stdout |-> <<"SUCCESS", n>>, stderr |-> ""]

\* C5: purge completeness.  Once a purge has finished and no regenerate has
\* run since, a full read of the store returns none of the ids purge read, a
\* delete was issued for every model read, and while purge runs the delete of
\* a model read is enabled whether or not the count has been computed.
C5_PurgeCompleteness ==
    /\ PurgeJustDone =>
          /\ Keys(FullRead) \cap Keys(LastRun.read) = {}
          /\ deleted_keys = Keys(LastRun.read)
    /\ purgePc = "running" =>
          \A m \in exp_opportunity_summary_model :
              m.id \notin deleted_keys => ENABLED PurgeDelete(m)

\* A purge that read two models has finished.
C5_Witness ==
    /\ PurgeJustDone
    /\ Cardinality(LastRun.read) >= 2

\* C6: purge reporting.  A purge over a store of n non-deleted models yields
\* one success report carrying n when n > 0 and no report when n = 0: never
\* a zero count, never two reports.  (While purge runs alone, n is the number
\* of non-deleted models still stored plus the number already deleted.)
C6_PurgeReporting ==
    /\ BagCardinality(purge_results) <= 1
    /\ \A r \in BagToSet(purge_results) : r.stdout[2] > 0
    /\ (purge_counted /\ (purgePc = "running" \/ PurgeJustDone)) =>
          LET n == Cardinality(FullRead) + Cardinality(deleted_keys)
          IN  purge_results = IF n > 0 THEN SetToBag({SuccessReport(n)})
                              ELSE EmptyBag

\* A purge over two models has finished with its report.
C6_Witness ==
    /\ PurgeJustDone
    /\ purge_results = SetToBag({SuccessReport(2)})

\* A purge over an empty store has finished without a report.
C6_WitnessEmpty ==
    /\ PurgeJustDone
    /\ LastRun.read = {}
    /\ purge_results = EmptyBag

C8_EmptyIsSuccess ==
    \A o \in Outcomes :
        /\ (MissingStories(o.topic_id) = {} /\ LinkedExps(o.topic_id) = {}) =>
              /\ o.result.status = "SUCCESS"
              /\ o.result.models = EmptyBag
        /\ o.result.status = "FAILURE" =>
              (~AllResolve(o.topic_id) \/ Faulty(o.topic_id))

\* A success outcome without models of a topic whose story has a chapter,
\* none linking an exploration.
C8_Witness ==
    \E o \in Outcomes :
        /\ o.result.status = "SUCCESS"
        /\ o.result.models = EmptyBag
        /\ \E sid \in CanonicalStories(o.topic_id) :
              Len(storyModels[sid].nodes) > 0

\* A step of the regenerate pipeline.
GenStep ==
    \/ \E topic \in topics : Reconcile(topic)
    \/ \E i \in DOMAIN opportunities_results : PutResult(i)
    \/ GenFinish

ResultsFor(t) ==
    {i \in DOMAIN opportunities_results : opportunities_results[i].topic_id = t}

\* C9: one report per topic.  A run never fails and, while running, always
\* has a step to take; no topic is ever mapped twice; and a finished run's
\* result stream holds exactly one job result for each topic read, successes
\* and failures alike.
C9_OneReportPerTopic ==
    /\ genPc # "failed"
    /\ genPc = "running" => ENABLED GenStep
    /\ \A t \in TopicIds : Cardinality(ResultsFor(t)) <= 1
    /\ genPc = "done" =>
          /\ \A t \in PresentTopics : Cardinality(ResultsFor(t)) = 1
          /\ \A t \in TopicIds \ PresentTopics : ResultsFor(t) = {}
          /\ BagCardinality(JobResults) = Cardinality(PresentTopics)

\* A finished run over two topics, one succeeding and one failing.
C9_Witness ==
    /\ genPc = "done"
    /\ Cardinality(PresentTopics) = 2
    /\ \E a, b \in Outcomes :
          a.result.status = "SUCCESS" /\ b.result.status = "FAILURE"

SuccessModels(outcomes) ==
    UNION {BagToSet(o.result.models) :
              o \in {x \in outcomes : x.result.status = "SUCCESS"}}

\* C10: purge before regenerate gives full replacement.  When a regenerate
\* run follows a purge run, a full read of the store after it returns exactly
\* the models of its success outcomes; and no step of a regenerate run
\* removes a key from the store, so a stale model that is not regenerated
\* stays.
C10_FullReplacement ==
    [][/\ \A i \in 1..(Len(log') - 1) :
              (log'[i].job = "purge" /\ log'[i + 1].job = "generate") =>
                  GetModels(log'[i + 1].store) =
                      SuccessModels(log'[i + 1].outcomes)
       /\ genPc = "running" =>
              Keys(summaryModels) \subseteq Keys(summaryModels')]_vars

\* A regenerate run has followed a purge that removed a stale model whose key
\* the regenerate run did not write again.
C10_Witness ==
    /\ Len(log) = 2
    /\ log[1].job = "purge"
    /\ log[2].job = "generate"
    /\ genPc = "done"
    /\ \E m \in log[1].read : m.id \notin Keys(FullRead)
    /\ FullRead # {}

\* A regenerate run without a purge before it has finished and a stale model
\* is still in the store.
C10_WitnessStale ==
    /\ Len(log) = 1
    /\ log[1].job = "generate"
    /\ \E m \in FullRead : m \notin SuccessModels(log[1].outcomes)

\* ---------------------------------------------------------------------------
\* The models handed to PutModels so far in the run.
HandedToPut ==
    UNION {BagToSet(opportunities_results[i].result.models) :
              i \in {j \in put_done :
                        opportunities_results[j].result.status = "SUCCESS"}}

\* C11: write barrier and dispatch.  Only results already computed go through
\* the put; the models written (the store was empty when the run started)
\* are the models of the success outcomes put so far, each of them a model
\* of a success outcome of its own topic, and when the run has finished they
\* are the union of the models of all success outcomes.
C11_WriteBarrier ==
    /\ put_done \subseteq DOMAIN opportunities_results
    /\ summaryModels = HandedToPut
    /\ \A m \in summaryModels :
          \E o \in OutcomesOf(m.topic_id) :
              /\ o.result.status = "SUCCESS"
              /\ m \in BagToSet(o.result.models)
    /\ genPc = "done" => summaryModels = SuccessModels(Outcomes)

\* The models of one topic are written while the other topic, which has
\* models to write too, has not been reconciled yet.
C11_Witness ==
    /\ genPc = "running"
    /\ \E a, b \in PresentTopics :
          /\ WrittenOf(b) # {}
          /\ ResultsFor(a) = {}
          /\ AllResolve(a) /\ ~Faulty(a)
          /\ ChapterPairs(a) # {}

\* ---------------------------------------------------------------------------
\* What the source datastore alone says a run must report and write.
ExpectedException(t) ==
    [message |-> "Failed to regenerate opportunities for topic id",
     topic_id |-> t,
     missing_exp_with_ids |-> MissingExps(t),
     missing_story_with_ids |-> MissingStories(t)]

ExpectedJobResult(t) ==
    IF ~AllResolve(t)
    THEN [stdout |-> "", stderr |-> <<"FAILURE", ExpectedException(t)>>]
    ELSE IF Faulty(t)
    THEN [stdout |-> "", stderr |-> <<"FAILURE", SummaryError>>]
    ELSE [stdout |-> "SUCCESS", stderr |-> ""]

FirstChapter(sid, eid) ==
    CHOOSE i \in DOMAIN storyModels[sid].nodes :
        /\ storyModels[sid].nodes[i] = eid
        /\ \A j \in 1..(i - 1) : storyModels[sid].nodes[j] # eid

\* The (story, exploration) pairs reachable from the topic.
Triples(t) ==
    UNION {{<<sid, eid>> : eid \in LinksOf(sid)} :
              sid \in CanonicalStories(t) \cap PresentStories}

ExpectedModels(t) ==
    IF AllResolve(t) /\ ~Faulty(t)
    THEN {[id |-> <<t, p[1], p[2]>>, topic_id |-> t, story_id |-> p[1],
           chapter_title |-> FirstChapter(p[1], p[2]), deleted |-> FALSE] :
             p \in Triples(t)}
    ELSE {}

ExpectedReports ==
    [r \in {ExpectedJobResult(t) : t \in PresentTopics} |->
        Cardinality({t \in PresentTopics : ExpectedJobResult(t) = r})]

\* C12: order independence.  Whatever the order in which the topics were
\* reconciled and their results put, a finished run has the reports and the
\* written models that the source datastore alone determines: each topic's
\* outcome follows from the topic and the two tables.
C12_OrderIndependence ==
    genPc = "done" =>
        /\ JobResults = ExpectedReports
        /\ \A o \in Outcomes :
              /\ o.result.job_result = ExpectedJobResult(o.topic_id)
              /\ BagToSet(o.result.models) = ExpectedModels(o.topic_id)
        /\ summaryModels = UNION {ExpectedModels(t) : t \in PresentTopics}

\* A finished run that reconciled T2 before T1 and put T1 before T2, one
\* topic failing and the other writing models.
C12_Witness ==
    /\ genPc = "done"
    /\ Len(opportunities_results) = 2
    /\ opportunities_results[1].topic_id = "T2"
    /\ opportunities_results[1].result.status = "FAILURE"
    /\ opportunities_results[2].result.status = "SUCCESS"
    /\ WrittenOf("T1") # {}

\* C13: failure diagnostics.  The failure outcome of a topic with missing
\* references names the topic, the canonical story ids that are not in the
\* story table, and the exploration ids linked by the present canonical
\* stories that are not in the exploration table; an exploration linked only
\* by a missing story is not listed.
C13_FailureDiagnostics ==
    \A o \in Outcomes :
        ~AllResolve(o.topic_id) =>
            /\ o.result.status = "FAILURE"
            /\ o.result.job_result.stderr[1] = "FAILURE"
            /\ o.result.job_result.stderr[2].topic_id = o.topic_id
            /\ o.result.job_result.stderr[2].missing_story_with_ids =
                   CanonicalStories(o.topic_id) \ PresentStories
            /\ o.result.job_result.stderr[2].missing_exp_with_ids =
                   MissingExps(o.topic_id)
            /\ \A eid \in o.result.job_result.stderr[2].missing_exp_with_ids :
                  \E sid \in CanonicalStories(o.topic_id) \cap PresentStories :
                      eid \in LinksOf(sid)

\* A failure outcome of a topic whose missing story links a deleted
\* exploration that none of its present stories links, next to a present
\* story linking a deleted exploration.
C13_Witness ==
    \E o \in Outcomes :
        /\ \E sid \in MissingStories(o.topic_id) :
              \E eid \in LinksOf(sid) \ PresentExps :
                  eid \notin LinkedExps(o.topic_id)
        /\ MissingExps(o.topic_id) # {}
        /\ o.result.status = "FAILURE"

\* The number of records of the list that carry the identifier.
RecordsWithId(models, id) ==
    BagCardinality([m \in {x \in BagToSet(models) : x.id = id} |-> models[m]])

\* The number of chapters of story sid that link exploration eid.
ChapterLinks(sid, eid) ==
    Cardinality({i \in DOMAIN storyModels[sid].nodes :
                    storyModels[sid].nodes[i] = eid})

\* C14 as stated: a success outcome holds exactly one record for each
\* reachable triple, so no two of its records share a composite identifier.
C14_AsStated ==
    \A o \in Outcomes :
        o.result.status = "SUCCESS" =>
            /\ \A p \in Triples(o.topic_id) :
                  RecordsWithId(o.result.models,
                                <<o.topic_id, p[1], p[2]>>) = 1
            /\ BagCardinality(o.result.models) =
                   Cardinality(Triples(o.topic_id))

\* C14, amended: a success outcome holds, for each reachable triple, one
\* record per chapter of the story that links the exploration, each keyed by
\* the triple, and no record of any other key; records of different triples
\* have different identifiers, and the records that share an identifier are
\* equal.
C14_OnePerChapterLink ==
    \A o \in Outcomes :
        o.result.status = "SUCCESS" =>
            /\ \A p \in Triples(o.topic_id) :
                  RecordsWithId(o.result.models,
                                <<o.topic_id, p[1], p[2]>>) =
                      ChapterLinks(p[1], p[2])
            /\ \A m \in BagToSet(o.result.models) :
                  /\ m.id = <<m.topic_id, m.story_id, m.id[3]>>
                  /\ m.topic_id = o.topic_id
                  /\ <<m.story_id, m.id[3]>> \in Triples(o.topic_id)
            /\ \A m1, m2 \in BagToSet(o.result.models) :
                  m1.id = m2.id => m1 = m2

\* A success outcome of a topic with a story linking one exploration from two
\* chapters: two records under the one identifier.
C14_Witness ==
    \E o \in Outcomes :
        /\ o.result.status = "SUCCESS"
        /\ \E p \in Triples(o.topic_id) :
              /\ ChapterLinks(p[1], p[2]) = 2
              /\ RecordsWithId(o.result.models,
                               <<o.topic_id, p[1], p[2]>>) = 2

\* C15: reconciliation leaves its inputs unchanged.  No step of purge or of
\* regenerate writes the topic, story or exploration datastore, and while a
\* regenerate run is under way (every reconciliation, succeeding or failing,
\* and every put) the topics read and the two lookup tables stay as they
\* were built.
C15_InputsUnchanged ==
    [][/\ topicModels' = topicModels
       /\ storyModels' = storyModels
       /\ expModels' = expModels
       /\ genPc = "running" =>
              /\ topics' = topics
              /\ stories_dict' = stories_dict
              /\ exps_dict' = exps_dict]_vars

\* After a purge run, a regenerate run has reconciled one topic with success
\* and one with failure over non-empty tables.
C15_Witness ==
    /\ \E i \in DOMAIN log : log[i].job = "purge"
    /\ genPc = "running"
    /\ DOMAIN stories_dict # {}
    /\ DOMAIN exps_dict # {}
    /\ \E o1, o2 \in Outcomes :
          /\ o1.result.status = "SUCCESS"
          /\ BagToSet(o1.result.models) # {}
          /\ o2.result.status = "FAILURE"

\* C16: the lookup tables cover the snapshot exactly.  Once a regenerate run
\* has read, the keys of the story table are the ids of the non-deleted
\* stories and the keys of the exploration table are the ids of the
\* non-deleted explorations, and each key is mapped to the object fetched
\* from the model of that id.
C16_TablesCoverSnapshot ==
    genPc \in {"running", "done"} =>
        /\ DOMAIN stories_dict = {m.id : m \in GetModels(Range(storyModels))}
        /\ DOMAIN exps_dict = {m.id : m \in GetModels(Range(expModels))}
        /\ \A k \in DOMAIN stories_dict :
              /\ stories_dict[k].id = k
              /\ stories_dict[k] = get_story_from_model(storyModels[k])
        /\ \A k \in DOMAIN exps_dict :
              /\ exps_dict[k].id = k
              /\ exps_dict[k] = get_exploration_from_model(expModels[k])

\* A run has read a datastore with a soft-deleted story that has chapters and
\* two explorations that are not deleted: a story table of one entry and an
\* exploration table of two.
C16_Witness ==
    /\ genPc = "running"
    /\ \E sid \in StoryIds :
          /\ storyModels[sid].deleted
          /\ storyModels[sid].nodes # <<>>
    /\ Cardinality(DOMAIN stories_dict) = 1
    /\ Cardinality(DOMAIN exps_dict) = 2

\* The stories and topics that are none of topic t's business.
StoriesOutside(t) == PresentStories \ CanonicalStories(t)
OtherTopics(t) == PresentTopics \ {t}

\* C17: unrelated dangling references do not affect a topic.  The outcome of
\* a topic depends on its own canonical stories and their explorations only:
\* when these all resolve (and none makes the projection raise) the outcome
\* is a success with the records of the topic's own triples, whatever a story
\* outside its list links and whatever another topic references; and a
\* failure names references of the topic itself only.
C17_UnrelatedDangling ==
    \A o \in Outcomes :
        /\ (AllResolve(o.topic_id) /\ ~Faulty(o.topic_id)) =>
              /\ o.result.status = "SUCCESS"
              /\ {<<m.story_id, m.id[3]>> : m \in BagToSet(o.result.models)} =
                     Triples(o.topic_id)
              /\ \A m \in BagToSet(o.result.models) :
                    m.story_id \in CanonicalStories(o.topic_id)
        /\ (o.result.status = "FAILURE" /\ ~Faulty(o.topic_id)) =>
              /\ o.result.job_result.stderr[2].missing_story_with_ids
                     \subseteq CanonicalStories(o.topic_id)
              /\ o.result.job_result.stderr[2].missing_exp_with_ids
                     \subseteq LinkedExps(o.topic_id)

\* A success outcome with records for a topic, while a present story outside
\* its canonical list links a deleted exploration.
C17_Witness ==
    \E o \in Outcomes :
        /\ o.result.status = "SUCCESS"
        /\ BagToSet(o.result.models) # {}
        /\ \E sid \in StoriesOutside(o.topic_id) :
              LinksOf(sid) \ PresentExps # {}

\* A success outcome with records for a topic, after another topic that
\* references a deleted story has failed.
C17_WitnessOtherTopic ==
    \E o1, o2 \in Outcomes :
        /\ o1.result.status = "SUCCESS"
        /\ BagToSet(o1.result.models) # {}
        /\ o2.topic_id \in OtherTopics(o1.topic_id)
        /\ MissingStories(o2.topic_id) # {}
        /\ o2.result.status = "FAILURE"

\* The results the count branch emits for a read of n models.
ReportFor(n) == IF n > 0 THEN SetToBag({SuccessReport(n)}) ELSE EmptyBag

\* C18: purge deletes only what it read.  In any interleaving of purge with
\* regenerate: the read of a starting purge is the set of non-deleted models
\* the store holds at that step and stays fixed while purge runs; every
\* delete purge issues is for the key of a model of that read; a model leaves
\* the store only by a put under its key or by a delete of a key purge read;
\* and the count reported is the size of the read.
C18_PurgeDeletesOnlyRead ==
    [][/\ (purgePc # "running" /\ purgePc' = "running") =>
              exp_opportunity_summary_model' = GetModels(summaryModels)
       /\ purgePc = "running" =>
              exp_opportunity_summary_model' = exp_opportunity_summary_model
       /\ deleted_keys' \ deleted_keys \subseteq
              Keys(exp_opportunity_summary_model')
       /\ \A m \in summaryModels \ summaryModels' :
              \/ m.id \in Keys(summaryModels')
              \/ /\ purgePc = "running"
                 /\ m.id \in Keys(exp_opportunity_summary_model)
       /\ purge_counted' =>
              purge_results' =
                  ReportFor(Cardinality(exp_opportunity_summary_model'))]_vars

\* A purge that read models has finished while a regenerate run was under
\* way, and the store holds a model regenerate put whose key purge never
\* read, and none of the keys purge read.
C18_Witness ==
    /\ purgePc = "done"
    /\ genPc = "running"
    /\ exp_opportunity_summary_model # {}
    /\ purge_results =
           SetToBag({SuccessReport(Cardinality(exp_opportunity_summary_model))})
    /\ \E m \in HandedToPut :
          /\ m \in FullRead
          /\ m.id \notin Keys(exp_opportunity_summary_model)
    /\ Keys(FullRead) \cap Keys(exp_opportunity_summary_model) = {}

\* A purge has finished although the store holds a model under a key it read
\* and deleted: regenerate put the model after the delete.
C18_WitnessReput ==
    /\ purgePc = "done"
    /\ \E m \in FullRead :
          /\ m.id \in deleted_keys
          /\ m \in HandedToPut

====
